---- MODULE Spec2Model ----
(***************************************************************************)
(* Model of src/store_cmds.go: the `src store` sub-commands (import,       *)
(* indexes, index, repos, versions, units, defs, refs).                    *)
(*                                                                         *)
(* One CLI invocation runs one command's Execute.  `cmd` names it, `opts`  *)
(* holds that command's options, `storeCmd` the options shared by all      *)
(* commands, and `caps` the interfaces the constructed backend's dynamic   *)
(* type satisfies (the store package decides them; this file only probes   *)
(* them with type assertions).                                             *)
(***************************************************************************)
EXTENDS Integers, Sequences, FiniteSets, TLC

VARIABLES
    cmd,        \* the command whose Execute runs, or whose function is applied
    storeCmd,   \* StoreCmd: [Type, Root, Config]
    caps,       \* interfaces satisfied by the backend value store() returns
    opts,       \* the options struct of the running command
    pc,         \* position of the main flow
    s,          \* the backend value returned by storeCmd.store()
    result,     \* the error Execute returned (Running until it returns)
    fatal,      \* message of the log.Fatal that ended the process ("" : none)
    calls,      \* calls made on the backend, in order
    ret,        \* value a bare function application returned
    \* doStoreIndexesCmd
    events,     \* the status events the backend call f sends, in order
    fErr,       \* the error f returns
    sent,       \* number of events f has handed over on indexChan
    closed,     \* number of close(indexChan) calls made
    cpc,        \* position of the consumer goroutine
    x,          \* the event the consumer is rendering
    last,       \* the consumer's lastRepo, lastCommitID, lastUnit
    out,        \* what the consumer printed, in order
    hasError,   \* the flag shared by the consumer and the main flow
    retval,     \* the value of the return statement, fixed before the defers run
    \* StoreImportCmd.Execute
    rules,      \* mf.Rules, the rule list plan.CreateMakefile returns
    files,      \* files[i]: what reading rules[i].Target() from bdfs gives
    i,          \* index of the rule the loop is at
    loaded,     \* indices of the rules whose target file was read, in order
    data,       \* the graph.Output last loaded (after the merge, once merged)
    logs,       \* log lines printed
    \* makeGraphData
    wg,         \* the sync.WaitGroup counter
    tpc,        \* tpc[t]: position of goroutine t (1: defs, 2: refs, 3: assemble)
    ti,         \* ti[t]: goroutine t's loop index i
    defsArr,    \* the defs array: defsArr[k] is defs[k-1], zero or generated
    refsArr,    \* the refs array
    mkData      \* data.Defs and data.Refs: pointers into defs and refs (0: nil)

(***************************************************************************)
(* Values                                                                  *)
(***************************************************************************)
Err(kind, what, arg) == [kind |-> kind, what |-> what, arg |-> arg]
Nil == Err("nil", "", "")
Running == Err("running", "", "")
NoStore == [impl |-> "none", fs |-> "none", conf |-> "none"]
NoRet == [fatal |-> "", fs |-> <<>>, set |-> FALSE]

\* Does sequence t end with sequence suf (strings.HasSuffix, on host labels).
HasSuffix(t, suf) ==
    /\ Len(t) >= Len(suf)
    /\ SubSeq(t, Len(t) - Len(suf) + 1, Len(t)) = suf

\* The host suffix that selects object storage (line 143), as host labels.
AmazonSuffix == <<"amazonaws", "com">>

(***************************************************************************)
(* --config payloads and their decoding (encoding/json into conf2).        *)
(* JSONParse gives the JSON value a payload text denotes; Unmarshal_conf2  *)
(* applies json.Unmarshal's rules for a struct { RepoPaths string }.       *)
(***************************************************************************)
JSONParse(text) ==
    CASE text = "{bad" -> [ok |-> FALSE, kind |-> "", field |-> "", str |-> ""]
      [] text = "null" -> [ok |-> TRUE, kind |-> "null", field |-> "", str |-> ""]
      [] text = "[1]" -> [ok |-> TRUE, kind |-> "array", field |-> "", str |-> ""]
      [] text = "{}" -> [ok |-> TRUE, kind |-> "object", field |-> "absent", str |-> ""]
      [] text = "{\"RepoPaths\":5}" ->
            [ok |-> TRUE, kind |-> "object", field |-> "number", str |-> ""]
      [] text = "{\"RepoPaths\":\"Other\"}" ->
            [ok |-> TRUE, kind |-> "object", field |-> "string", str |-> "Other"]
      [] text = "{\"RepoPaths\":\"EvenlyDistributedRepoPaths\"}" ->
            [ok |-> TRUE, kind |-> "object", field |-> "string",
             str |-> "EvenlyDistributedRepoPaths"]
      [] OTHER -> [ok |-> FALSE, kind |-> "", field |-> "", str |-> ""]

Unmarshal_conf2(text) ==
    LET v == JSONParse(text) IN
    IF ~v.ok THEN [err |-> TRUE, RepoPaths |-> ""]
    ELSE IF v.kind = "null" THEN [err |-> FALSE, RepoPaths |-> ""]
    ELSE IF v.kind # "object" THEN [err |-> TRUE, RepoPaths |-> ""]
    ELSE IF v.field = "absent" THEN [err |-> FALSE, RepoPaths |-> ""]
    ELSE IF v.field = "string" THEN [err |-> FALSE, RepoPaths |-> v.str]
    ELSE [err |-> TRUE, RepoPaths |-> ""]

(***************************************************************************)
(* StoreCmd.store (lines 139-177)                                          *)
(***************************************************************************)
\* Lines 143-147: the filesystem behind the store.
StoreFS(c) ==
    IF c.Root.parsed /\ HasSuffix(c.Root.Host, AmazonSuffix) THEN "S3" ELSE "OS"

store_SkipsConfigError(c) ==
    CASE c.Type = "RepoStore" ->
            [s |-> [impl |-> "FSRepoStore", fs |-> StoreFS(c), conf |-> "none"],
             err |-> Nil]
      [] c.Type = "MultiRepoStore" ->
            [s |-> [impl |-> "FSMultiRepoStore", fs |-> StoreFS(c), conf |-> "nil"],
             err |-> Nil]
      [] OTHER -> [s |-> NoStore, err |-> Err("unrecognized store --type", c.Type, "")]

StoreCmd_store(c) ==
    CASE c.Type = "RepoStore" ->
            [s |-> [impl |-> "FSRepoStore", fs |-> StoreFS(c), conf |-> "none"],
             err |-> Nil]
      [] c.Type = "MultiRepoStore" ->
            IF c.Config # "" /\ Unmarshal_conf2(c.Config).err
            THEN [s |-> NoStore, err |-> Err("--config", c.Config, "")]
            ELSE [s |-> [impl |-> "FSMultiRepoStore", fs |-> StoreFS(c),
                         conf |-> IF c.Config # ""
                                     /\ Unmarshal_conf2(c.Config).RepoPaths
                                            = "EvenlyDistributedRepoPaths"
                                  THEN "EvenlyDistributedRepoPaths" ELSE "nil"],
                  err |-> Nil]
      [] OTHER -> [s |-> NoStore, err |-> Err("unrecognized store --type", c.Type, "")]

(***************************************************************************)
(* path.Clean on a relative path given as its segments.                    *)
(***************************************************************************)
RECURSIVE CleanSegs(_, _)
CleanSegs(segs, acc) ==
    IF segs = <<>> THEN acc
    ELSE LET h == Head(segs) IN
         IF h = "." THEN CleanSegs(Tail(segs), acc)
         ELSE IF h = ".." /\ acc # <<>> /\ acc[Len(acc)] # ".."
              THEN CleanSegs(Tail(segs), SubSeq(acc, 1, Len(acc) - 1))
              ELSE CleanSegs(Tail(segs), Append(acc, h))

path_Clean(p) ==
    LET r == CleanSegs(p, <<>>) IN IF r = <<>> THEN <<".">> ELSE r

(***************************************************************************)
(* The filters() methods and IndexCriteria.  log.Fatal ends the process:   *)
(* the function then yields no value, modelled as Fatal(msg).              *)
(***************************************************************************)
Fatal(msg) == [fatal |-> msg, fs |-> <<>>, set |-> FALSE]
Yield(fs) == [fatal |-> "", fs |-> fs, set |-> TRUE]
F(by, arg) == [by |-> by, arg |-> arg]
OptF(cond, by, arg) == IF cond THEN <<F(by, arg)>> ELSE <<>>

MsgTypeName == "must specify either both or neither of --type and --name"
MsgUnit == "must specify either both or neither of --unit-type and --unit"
MsgDef == "must specify either all or neither of --def-repo, --def-unit-type, --def-unit, and --def-path"
MsgStale == "must specify exactly one of --stale and --not-stale"

\* Lines 636-642.
StoreReposCmd_filters(c) ==
    Yield(OptF(c.IDContains # "", "RepoFilterFunc", <<c.IDContains>>))

\* Lines 672-683.
StoreVersionsCmd_filters(c) ==
    Yield(OptF(c.Repo # "", "ByRepo", <<c.Repo>>)
          \o OptF(c.CommitIDPrefix # "", "VersionFilterFunc", <<c.CommitIDPrefix>>))

StoreUnitsCmd_filters_Drops(c) ==
    Yield(OptF(c.Type # "" /\ c.Name # "", "ByUnits", <<c.Type, c.Name>>)
          \o OptF(c.CommitID # "", "ByCommitID", <<c.CommitID>>)
          \o OptF(c.Repo # "", "ByRepo", <<c.Repo>>)
          \o OptF(c.File # <<>>, "ByFiles", path_Clean(c.File)))

\* Lines 720-738.
StoreUnitsCmd_filters(c) ==
    IF (c.Type # "" /\ c.Name = "") \/ (c.Type = "" /\ c.Name # "")
    THEN Fatal(MsgTypeName)
    ELSE Yield(OptF(c.Type # "" /\ c.Name # "", "ByUnits", <<c.Type, c.Name>>)
               \o OptF(c.CommitID # "", "ByCommitID", <<c.CommitID>>)
               \o OptF(c.Repo # "", "ByRepo", <<c.Repo>>)
               \o OptF(c.File # <<>>, "ByFiles", path_Clean(c.File)))

\* Lines 775-807.
StoreDefsCmd_filters(c) ==
    IF (c.UnitType # "" /\ c.Unit = "") \/ (c.UnitType = "" /\ c.Unit # "")
    THEN Fatal(MsgUnit)
    ELSE Yield(OptF(c.UnitType # "" /\ c.Unit # "", "ByUnits", <<c.UnitType, c.Unit>>)
               \o OptF(c.CommitID # "", "ByCommitID", <<c.CommitID>>)
               \o OptF(c.Repo # "", "ByRepo", <<c.Repo>>)
               \o OptF(c.Path # "", "ByDefPath", <<c.Path>>)
               \o OptF(c.File # <<>>, "ByFiles", path_Clean(c.File))
               \o OptF(c.FilePathPrefix # <<>>, "ByFiles", path_Clean(c.FilePathPrefix))
               \o OptF(c.NamePrefix # "", "DefFilterFunc", <<c.NamePrefix>>)
               \o OptF(c.Limit # 0, "Limit", <<c.Limit>>))

\* Lines 846-885.
StoreRefsCmd_filters(c) ==
    IF (c.UnitType # "" /\ c.Unit = "") \/ (c.UnitType = "" /\ c.Unit # "")
    THEN Fatal(MsgUnit)
    ELSE IF (c.DefRepo # "" \/ c.DefUnitType # "" \/ c.DefUnit # "" \/ c.DefPath # "")
            /\ (c.DefRepo = "" \/ c.DefUnitType = "" \/ c.DefUnit = "" \/ c.DefPath = "")
    THEN Fatal(MsgDef)
    ELSE Yield(OptF(c.UnitType # "" /\ c.Unit # "", "ByUnits", <<c.UnitType, c.Unit>>)
               \o OptF(c.CommitID # "", "ByCommitID", <<c.CommitID>>)
               \o OptF(c.Repo # "", "ByRepo", <<c.Repo>>)
               \o OptF(c.File # <<>>, "ByFiles", path_Clean(c.File))
               \o OptF(c.Start # 0, "RefFilterFunc", <<"Start>=", c.Start>>)
               \o OptF(c.End # 0, "RefFilterFunc", <<"End<=", c.End>>)
               \o OptF(c.DefRepo # "" /\ c.DefUnitType # "" /\ c.DefUnit # ""
                         /\ c.DefPath # "",
                       "ByRefDef",
                       <<c.DefRepo, c.DefUnitType, c.DefUnit, c.DefPath>>))

\* Lines 482-507.  The result is the criteria record; crit.Unit is <<>> when nil.
storeIndexCriteria_IndexCriteria(c) ==
    IF c.Stale /\ c.NotStale THEN Fatal(MsgStale)
    ELSE IF (c.UnitType # "" \/ c.Unit # "") /\ (c.UnitType = "" \/ c.Unit = "")
    THEN Fatal(MsgUnit)
    ELSE Yield(<<[Repo |-> c.Repo, CommitID |-> c.CommitID, Name |-> c.Name,
                  Type |-> c.Type,
                  Stale |-> IF c.NotStale THEN "false"
                            ELSE IF c.Stale THEN "true" ELSE "nil",
                  Unit |-> IF c.UnitType # "" \/ c.Unit # ""
                           THEN <<c.UnitType, c.Unit>> ELSE <<>>]>>)

(***************************************************************************)
(* Variable groups                                                         *)
(***************************************************************************)
baseVars == <<cmd, storeCmd, caps, opts, pc, s, result, fatal, calls, ret>>
idxVars == <<events, fErr, sent, closed, cpc, x, last, out, hasError, retval>>
impVars == <<rules, files, i, loaded, data, logs>>
mkVars == <<wg, tpc, ti, defsArr, refsArr, mkData>>
vars == <<baseVars, idxVars, impVars, mkVars>>

\* s.(X): does the backend's dynamic type satisfy interface X.
Implements(iface) == iface \in caps

\* `return err` from Execute.
Return(e) ==
    /\ result' = e
    /\ pc' = "returned"

\* log.Fatal: the process exits; Execute never returns.
Exit(msg) ==
    /\ fatal' = msg
    /\ pc' = "exited"

(***************************************************************************)
(* The listing commands (lines 646-665, 687-709, 742-759, 811-828,         *)
(* 889-906): store(), the capability probe, filters(), the listing call.   *)
(***************************************************************************)
ListExecute(iface, what, op, filt) ==
    LET r == StoreCmd_store(storeCmd) IN
    IF r.err # Nil
    THEN Return(r.err) /\ UNCHANGED <<s, fatal, calls>>
    ELSE IF ~Implements(iface)
    THEN /\ s' = r.s
         /\ Return(Err("does not implement", what, r.s.impl))
         /\ UNCHANGED <<fatal, calls>>
    ELSE IF filt.fatal # ""
    THEN /\ s' = r.s
         /\ Exit(filt.fatal)
         /\ UNCHANGED <<result, calls>>
    ELSE /\ s' = r.s
         /\ calls' = Append(calls, [op |-> op, fs |-> filt.fs])
         /\ pc' = "listing"
         /\ UNCHANGED <<result, fatal>>

ListExecute_CallsFirst(iface, what, op, filt) ==
    LET r == StoreCmd_store(storeCmd) IN
    IF r.err # Nil
    THEN Return(r.err) /\ UNCHANGED <<s, fatal, calls>>
    ELSE IF filt.fatal # ""
    THEN /\ s' = r.s
         /\ Exit(filt.fatal)
         /\ UNCHANGED <<result, calls>>
    ELSE /\ s' = r.s
         /\ calls' = Append(calls, [op |-> op, fs |-> filt.fs])
         /\ pc' = "listing"
         /\ UNCHANGED <<result, fatal>>

StoreReposCmd_Execute_Unchecked ==
    /\ pc = "start" /\ cmd = "repos"
    /\ ListExecute_CallsFirst("MultiRepoStore", "listing repositories", "Repos",
                              StoreReposCmd_filters(opts))
    /\ UNCHANGED <<cmd, storeCmd, caps, opts, ret, idxVars, mkVars, impVars>>

StoreReposCmd_Execute ==
    /\ pc = "start" /\ cmd = "repos"
    /\ ListExecute("MultiRepoStore", "listing repositories", "Repos",
                   StoreReposCmd_filters(opts))
    /\ UNCHANGED <<cmd, storeCmd, caps, opts, ret, idxVars, mkVars, impVars>>

StoreVersionsCmd_Execute ==
    /\ pc = "start" /\ cmd = "versions"
    /\ ListExecute("RepoStore", "listing versions", "Versions",
                   StoreVersionsCmd_filters(opts))
    /\ UNCHANGED <<cmd, storeCmd, caps, opts, ret, idxVars, mkVars, impVars>>

StoreUnitsCmd_Execute ==
    /\ pc = "start" /\ cmd = "units"
    /\ ListExecute("TreeStore", "listing source units", "Units",
                   StoreUnitsCmd_filters(opts))
    /\ UNCHANGED <<cmd, storeCmd, caps, opts, ret, idxVars, mkVars, impVars>>

StoreDefsCmd_Execute ==
    /\ pc = "start" /\ cmd = "defs"
    /\ ListExecute("UnitStore", "listing defs", "Defs", StoreDefsCmd_filters(opts))
    /\ UNCHANGED <<cmd, storeCmd, caps, opts, ret, idxVars, mkVars, impVars>>

StoreRefsCmd_Execute ==
    /\ pc = "start" /\ cmd = "refs"
    /\ ListExecute("UnitStore", "listing refs", "Refs", StoreRefsCmd_filters(opts))
    /\ UNCHANGED <<cmd, storeCmd, caps, opts, ret, idxVars, mkVars, impVars>>

\* The backend's listing call returns: its error is returned as is, its
\* results are printed and Execute returns nil.
ListingReturns ==
    /\ pc = "listing"
    /\ \E e \in {Nil, Err("backend", calls[Len(calls)].op, "")} : Return(e)
    /\ UNCHANGED <<cmd, storeCmd, caps, opts, s, fatal, calls, ret, idxVars, mkVars, impVars>>

(***************************************************************************)
(* doStoreIndexesCmd (lines 511-604), called by StoreIndexesCmd.Execute    *)
(* (617-619) and StoreIndexCmd.Execute (628-630).                          *)
(*                                                                         *)
(* indexChan and done are unbuffered: a send and its receive are one       *)
(* step.  A status event keeps the fields the control flow reads: Repo,    *)
(* CommitID, Unit (a pointer: ptr 0 is nil), Error and BuildError; the     *)
(* detail line or JSON record printed for it is the out entry itself.      *)
(***************************************************************************)
NoEvent == [Repo |-> "", CommitID |-> "", Unit |-> [ptr |-> 0, Type |-> "", Name |-> ""],
            Error |-> "", BuildError |-> ""]
NoLast == [Repo |-> "", CommitID |-> "", Unit |-> 0]
Line(k, e) == [k |-> k, x |-> e]
ErrIndexErrors == Err("index listing or index building errors occurred", "", "")

\* Lines 617-619 / 628-630 and 512-592: the criteria, the backend, the
\* consumer goroutine for the output mode, and the call of f.
IndexExecute(op) ==
    LET crit == storeIndexCriteria_IndexCriteria(opts)
        r == StoreCmd_store(storeCmd) IN
    IF crit.fatal # ""
    THEN Exit(crit.fatal) /\ UNCHANGED <<s, result, calls, cpc>>
    ELSE IF r.err # Nil
    THEN Return(r.err) /\ UNCHANGED <<s, fatal, calls, cpc>>
    ELSE IF opts.Output \notin {"json", "text"}
    THEN /\ s' = r.s
         /\ Return(Err("unexpected --output value", opts.Output, ""))
         /\ UNCHANGED <<fatal, calls, cpc>>
    ELSE /\ s' = r.s
         /\ cpc' = "range"
         /\ calls' = Append(calls, [op |-> op, fs |-> crit.fs])
         /\ pc' = "calling"
         /\ UNCHANGED <<result, fatal>>

StoreIndexesCmd_Execute ==
    /\ pc = "start" /\ cmd = "indexes"
    /\ IndexExecute("Indexes")
    /\ UNCHANGED <<cmd, storeCmd, caps, opts, ret, impVars, mkVars>>
    /\ UNCHANGED <<events, fErr, sent, closed, x, last, out, hasError, retval>>

StoreIndexCmd_Execute ==
    /\ pc = "start" /\ cmd = "index"
    /\ IndexExecute("BuildIndexes")
    /\ UNCHANGED <<cmd, storeCmd, caps, opts, ret, impVars, mkVars>>
    /\ UNCHANGED <<events, fErr, sent, closed, x, last, out, hasError, retval>>

\* f sends its next event and the consumer's range receives it (523, 538).
SendStatus ==
    /\ pc = "calling" /\ cpc = "range" /\ closed = 0
    /\ sent < Len(events)
    /\ sent' = sent + 1
    /\ x' = events[sent + 1]
    /\ cpc' = "body"
    /\ UNCHANGED <<baseVars, impVars, mkVars, events, fErr, closed, last, out, hasError, retval>>

\* Lines 523-525: the json consumer's loop body.
RenderJSON ==
    /\ cpc = "body" /\ opts.Output = "json"
    /\ out' = Append(out, Line("json", x))
    /\ cpc' = "range"
    /\ UNCHANGED <<baseVars, impVars, mkVars, events, fErr, sent, closed, x, last, hasError, retval>>

\* Lines 539-584: the text consumer's loop body.
TextLines(e, l, isMultiRepo) ==
    (IF isMultiRepo /\ e.Repo # l.Repo
     THEN (IF l.Repo # "" THEN <<Line("blank", e)>> ELSE <<>>) \o <<Line("repo", e)>>
     ELSE <<>>)
    \o (IF e.CommitID # l.CommitID THEN <<Line("commit", e)>> ELSE <<>>)
    \o (IF e.Unit.ptr # l.Unit /\ e.Unit.ptr # 0
        THEN (IF e.Repo = l.Repo /\ e.CommitID = l.CommitID
              THEN <<Line("blank", e)>> ELSE <<>>) \o <<Line("unit", e)>>
        ELSE <<>>)
    \o <<Line("detail", e)>>

RenderText ==
    /\ cpc = "body" /\ opts.Output = "text"
    /\ out' = out \o TextLines(x, last, Implements("MultiRepoStore"))
    /\ hasError' = (hasError \/ x.Error # "" \/ x.BuildError # "")
    /\ last' = [Repo |-> x.Repo, CommitID |-> x.CommitID, Unit |-> x.Unit.ptr]
    /\ cpc' = "range"
    /\ UNCHANGED <<baseVars, impVars, mkVars, events, fErr, sent, closed, x, retval>>

\* Line 592: f has sent all its events and returns.  Lines 593-603: the
\* defer is registered and the return value is computed, reading hasError.
FReturns ==
    /\ pc = "calling" /\ sent = Len(events)
    /\ retval' = IF fErr # Nil THEN fErr
                 ELSE IF hasError THEN ErrIndexErrors ELSE Nil
    /\ pc' = "deferred"
    /\ UNCHANGED <<cmd, storeCmd, caps, opts, s, result, fatal, calls, ret, impVars, mkVars>>
    /\ UNCHANGED <<events, fErr, sent, closed, cpc, x, last, out, hasError>>

Deferred_NoDrain ==
    /\ pc = "deferred"
    /\ closed' = closed + 1
    /\ Return(retval)
    /\ UNCHANGED <<cmd, storeCmd, caps, opts, s, fatal, calls, ret, impVars, mkVars>>
    /\ UNCHANGED <<events, fErr, sent, cpc, x, last, out, hasError, retval>>

RangeEnds_NoSignal ==
    /\ cpc = "range" /\ closed > 0
    /\ cpc' = "exit"
    /\ UNCHANGED <<baseVars, impVars, mkVars, events, fErr, sent, closed, x, last, out>>
    /\ UNCHANGED <<hasError, retval>>

\* Line 594: the deferred function closes indexChan.
Deferred ==
    /\ pc = "deferred"
    /\ closed' = closed + 1
    /\ pc' = "draining"
    /\ UNCHANGED <<cmd, storeCmd, caps, opts, s, result, fatal, calls, ret, impVars, mkVars>>
    /\ UNCHANGED <<events, fErr, sent, cpc, x, last, out, hasError, retval>>

\* Lines 523/538: range sees the closed channel and the loop ends.
RangeEnds ==
    /\ cpc = "range" /\ closed > 0
    /\ cpc' = "signal"
    /\ UNCHANGED <<baseVars, impVars, mkVars, events, fErr, sent, closed, x, last, out, hasError, retval>>

\* Lines 526/586 and 595: done <- struct{}{} meets <-done; the deferred
\* function ends and doStoreIndexesCmd returns the value computed before.
Drained ==
    /\ pc = "draining" /\ cpc = "signal"
    /\ cpc' = "exit"
    /\ Return(retval)
    /\ UNCHANGED <<cmd, storeCmd, caps, opts, s, fatal, calls, ret, impVars, mkVars>>
    /\ UNCHANGED <<events, fErr, sent, closed, x, last, out, hasError, retval>>

(***************************************************************************)
(* StoreImportCmd.Execute (lines 198-296)                                  *)
(*                                                                         *)
(* A rule is [kind, hasSU, Unit, target]: kind "graph" is a                *)
(* *grapher.GraphUnitRule, hasSU says whether the rule has a SourceUnit()  *)
(* method, Unit is that source unit.  A graph.Output keeps Defs (each a    *)
(* Path and its Docs) and Docs (Path, Format, Data), the parts the merge   *)
(* reads and writes.                                                       *)
(***************************************************************************)
NoData == [Defs |-> <<>>, Docs |-> <<>>]
NoFile == [ok |-> FALSE, Defs |-> <<>>, Docs |-> <<>>]

RuleSkipped_EitherMatches(c, rule) ==
    IF c.Unit # "" \/ c.UnitType # ""
    THEN IF rule.hasSU
         THEN (c.Unit # "" /\ rule.Unit.Name # c.Unit)
              /\ (c.UnitType # "" /\ rule.Unit.Type # c.UnitType)
         ELSE TRUE
    ELSE FALSE

\* Lines 239-253: does the loop `continue` past this rule.
RuleSkipped(c, rule) ==
    IF c.Unit # "" \/ c.UnitType # ""
    THEN IF rule.hasSU
         THEN (c.Unit # "" /\ rule.Unit.Name # c.Unit)
              \/ (c.UnitType # "" /\ rule.Unit.Type # c.UnitType)
         ELSE TRUE
    ELSE FALSE

RECURSIVE DocsByPath_FirstWins(_, _)
DocsByPath_FirstWins(docs, m) ==
    IF docs = <<>> THEN m
    ELSE LET d == Head(docs) IN
         DocsByPath_FirstWins(Tail(docs),
            [p \in DOMAIN m \cup {d.Path} |-> IF p \in DOMAIN m THEN m[p] ELSE d])

\* Lines 269-272: docsByPath[doc.Path] = doc, for each doc in order.
RECURSIVE DocsByPath(_, _)
DocsByPath(docs, m) ==
    IF docs = <<>> THEN m
    ELSE LET d == Head(docs) IN
         DocsByPath(Tail(docs),
            [p \in DOMAIN m \cup {d.Path} |-> IF p = d.Path THEN d ELSE m[p]])

\* Lines 268-277: transfer docs to [def].Docs.
MergeDocs(d) ==
    LET m == DocsByPath(d.Docs, <<>>) IN
    [d EXCEPT !.Defs =
        [j \in 1..Len(d.Defs) |->
            IF d.Defs[j].Path \in DOMAIN m
            THEN [d.Defs[j] EXCEPT !.Docs =
                    Append(@, [Format |-> m[d.Defs[j].Path].Format,
                               Data |-> m[d.Defs[j].Path].Data])]
            ELSE d.Defs[j]]]

\* Lines 263-265: dry-run leaves the rule after the log line.
DryRunSkips(c) == c.DryRun

ImporterOf_DefaultsToRepo(cs) ==
    IF "MultiRepoImporter" \in cs THEN "multi" ELSE "repo"

\* Lines 279-290 and 393-406: the type switch on the backend.
ImporterOf(cs) ==
    IF "RepoImporter" \in cs THEN "repo"
    ELSE IF "MultiRepoImporter" \in cs THEN "multi"
    ELSE "none"

ImportCall(op, repo, commit, unit, d, n) ==
    [op |-> op, repo |-> repo, commit |-> commit, unit |-> unit, data |-> d,
     rule |-> n, err |-> Running]

\* The switch, for unit `unit` and data `d` of rule n, with the repository
\* and commit the call site passes.
Dispatch(repo, commit, unit, d, n) ==
    CASE ImporterOf(caps) = "repo" ->
            /\ calls' = Append(calls,
                    ImportCall("RepoImporter.Import", "", commit, unit, d, n))
            /\ pc' = "importing"
            /\ UNCHANGED result
      [] ImporterOf(caps) = "multi" ->
            /\ calls' = Append(calls,
                    ImportCall("MultiRepoImporter.Import", repo, commit, unit, d, n))
            /\ pc' = "importing"
            /\ UNCHANGED result
      [] OTHER ->
            /\ Return(Err("does not implement", "importing", s.impl))
            /\ UNCHANGED calls

LogLine(msg, n) == [msg |-> msg, n |-> n]

\* Lines 198-236: the backend, then the build data and the rule list.  Each
\* of openLocalRepo, getBuildDataFS, config.ReadCached, plan.CreateMakefile
\* may fail, and its error is returned.
StoreImportCmd_Execute ==
    /\ pc = "start" /\ cmd = "import"
    /\ LET r == StoreCmd_store(storeCmd) IN
       IF r.err # Nil
       THEN Return(r.err) /\ UNCHANGED <<s, opts, logs>>
       ELSE IF opts.Sample
       THEN /\ s' = r.s
            /\ pc' = "sample"
            /\ UNCHANGED <<result, opts, logs>>
       ELSE \E e \in {Nil, Err("openLocalRepo", "", ""), Err("getBuildDataFS", "", ""),
                      Err("config.ReadCached", "", ""),
                      Err("plan.CreateMakefile", "", "")} :
            /\ s' = r.s
            /\ opts' = IF e.kind = "openLocalRepo" \/ opts.RemoteBuildDataRepo # ""
                       THEN opts
                       ELSE [opts EXCEPT !.RemoteBuildDataRepo = opts.Repo]
            /\ logs' = IF opts.Verbose /\ e.kind \in {"nil", "config.ReadCached",
                                                     "plan.CreateMakefile"}
                       THEN Append(logs, LogLine("Importing build data", 0))
                       ELSE logs
            /\ IF e # Nil THEN Return(e) ELSE pc' = "loop" /\ UNCHANGED result
    /\ UNCHANGED <<cmd, storeCmd, caps, fatal, calls, ret, idxVars, mkVars>>
    /\ UNCHANGED <<rules, files, i, loaded, data>>

\* Lines 238-290, one iteration up to the importer call.
ImportRule ==
    /\ pc = "loop" /\ i <= Len(rules)
    /\ LET rule == rules[i] IN
       IF RuleSkipped(opts, rule) \/ rule.kind # "graph"
       THEN /\ i' = i + 1
            /\ UNCHANGED <<pc, result, calls, loaded, data, logs>>
       ELSE /\ loaded' = Append(loaded, i)
            /\ IF ~files[i].ok
               THEN /\ Return(Err("read", rule.target, ""))
                    /\ UNCHANGED <<calls, data, logs, i>>
               ELSE LET d == [Defs |-> files[i].Defs, Docs |-> files[i].Docs] IN
                    /\ logs' = IF opts.DryRun \/ opts.Verbose
                               THEN Append(logs, LogLine("Importing graph data", i))
                               ELSE logs
                    /\ IF DryRunSkips(opts)
                       THEN /\ data' = d
                            /\ i' = i + 1
                            /\ UNCHANGED <<pc, result, calls>>
                       ELSE /\ data' = MergeDocs(d)
                            /\ Dispatch(opts.Repo, opts.CommitID, rule.Unit,
                                        MergeDocs(d), i)
                            /\ UNCHANGED i
    /\ UNCHANGED <<cmd, storeCmd, caps, opts, s, fatal, ret, idxVars, mkVars, rules, files>>

ImporterReturns_Continues ==
    /\ pc = "importing" /\ ~opts.Sample
    /\ \E e \in {Nil, Err("import", calls[Len(calls)].unit.Name, "")} :
        /\ calls' = [calls EXCEPT ![Len(calls)].err = e]
        /\ pc' = "loop"
        /\ i' = i + 1
        /\ UNCHANGED result
    /\ UNCHANGED <<cmd, storeCmd, caps, opts, s, fatal, ret, idxVars, mkVars>>
    /\ UNCHANGED <<rules, files, loaded, data, logs>>

\* Lines 281-287: the importer returns; its error ends Execute.
ImporterReturns ==
    /\ pc = "importing" /\ ~opts.Sample
    /\ \E e \in {Nil, Err("import", calls[Len(calls)].unit.Name, "")} :
        /\ calls' = [calls EXCEPT ![Len(calls)].err = e]
        /\ IF e # Nil
           THEN Return(e) /\ UNCHANGED i
           ELSE pc' = "loop" /\ i' = i + 1 /\ UNCHANGED result
    /\ UNCHANGED <<cmd, storeCmd, caps, opts, s, fatal, ret, idxVars, mkVars>>
    /\ UNCHANGED <<rules, files, loaded, data, logs>>

\* Lines 292-295: the loop is over.
ImportCompleted ==
    /\ pc = "loop" /\ i > Len(rules)
    /\ logs' = Append(logs, LogLine("Import completed", 0))
    /\ Return(Nil)
    /\ UNCHANGED <<cmd, storeCmd, caps, opts, s, fatal, calls, ret, idxVars, mkVars>>
    /\ UNCHANGED <<rules, files, i, loaded, data>>

(***************************************************************************)
(* StoreImportCmd.sample (lines 299-455).  makeGraphData's result is the   *)
(* numDefs definitions def-path-0 .. and no docs.                          *)
(***************************************************************************)
SampleUnit == [Type |-> "MyUnitType", Name |-> "MyUnit"]
SampleCommitID == "ffffffffffffffffffffffffffffffffffffffff"
SampleRepo == "example.com/my/repo"
SampleData(numDefs) ==
    [Defs |-> [k \in 1..numDefs |->
                [Path |-> "def-path-" \o ToString(k - 1), Docs |-> <<>>]],
     Docs |-> <<>>]

(***************************************************************************)
(* makeGraphData (lines 301-364): the main flow starts three goroutines,   *)
(* each behind a wg.Add(1), and waits for the WaitGroup.  Goroutine 1      *)
(* fills defs, goroutine 2 fills refs, goroutine 3 stores the address of   *)
(* each element of defs and refs into data.Defs and data.Refs.  An address *)
(* is the element's index (0: nil).                                        *)
(***************************************************************************)
ZeroDef == [Path |-> "", Docs |-> <<>>]
ZeroRef == [DefPath |-> ""]
GenDef(n) == [Path |-> "def-path-" \o ToString(n), Docs |-> <<>>]
GenRef(n) == [DefPath |-> "ref-path-" \o ToString(n)]
Tasks == 1..3

\* Lines 302-310: the arrays and the output as make() leaves them.
MakeGraphData(numDefs, numRefs) ==
    /\ defsArr = [k \in 1..numDefs |-> ZeroDef]
    /\ refsArr = [k \in 1..numRefs |-> ZeroRef]
    /\ mkData = [Defs |-> [k \in 1..numDefs |-> 0], Refs |-> [k \in 1..numRefs |-> 0]]
    /\ wg = 0
    /\ tpc = [t \in Tasks |-> "unstarted"]
    /\ ti = [t \in Tasks |-> 0]

\* wg.Add(1); go func() {...}() for goroutine t.
Go(t, next) ==
    /\ wg' = wg + 1
    /\ tpc' = [tpc EXCEPT ![t] = "loop"]
    /\ pc' = next
    /\ UNCHANGED <<cmd, storeCmd, caps, opts, s, result, fatal, calls, ret>>
    /\ UNCHANGED <<idxVars, impVars, ti, defsArr, refsArr, mkData>>

\* Lines 312-313, 330-331, 351-352.
GoDefs == pc = "go1" /\ Go(1, "go2")
GoRefs == pc = "go2" /\ Go(2, "go3")
GoAssemble == pc = "go3" /\ Go(3, "wait")

\* defer wg.Done() of goroutine t.
Done(t) ==
    /\ tpc' = [tpc EXCEPT ![t] = "done"]
    /\ wg' = wg - 1

\* Lines 315-327: one iteration of the defs loop, or its end.
GenDefs ==
    /\ tpc[1] = "loop"
    /\ IF ti[1] < Len(defsArr)
       THEN /\ defsArr' = [defsArr EXCEPT ![ti[1] + 1] = GenDef(ti[1])]
            /\ ti' = [ti EXCEPT ![1] = @ + 1]
            /\ UNCHANGED <<wg, tpc>>
       ELSE Done(1) /\ UNCHANGED <<defsArr, ti>>
    /\ UNCHANGED <<baseVars, idxVars, impVars, refsArr, mkData>>

\* Lines 333-348: one iteration of the refs loop, or its end.
GenRefs ==
    /\ tpc[2] = "loop"
    /\ IF ti[2] < Len(refsArr)
       THEN /\ refsArr' = [refsArr EXCEPT ![ti[2] + 1] = GenRef(ti[2])]
            /\ ti' = [ti EXCEPT ![2] = @ + 1]
            /\ UNCHANGED <<wg, tpc>>
       ELSE Done(2) /\ UNCHANGED <<refsArr, ti>>
    /\ UNCHANGED <<baseVars, idxVars, impVars, defsArr, mkData>>

\* Lines 354-356: data.Defs[i] = &defs[i], or the loop ends and the next
\* begins.
AssembleDefs ==
    /\ tpc[3] = "loop"
    /\ IF ti[3] < Len(defsArr)
       THEN /\ mkData' = [mkData EXCEPT !.Defs[ti[3] + 1] = ti[3] + 1]
            /\ ti' = [ti EXCEPT ![3] = @ + 1]
            /\ UNCHANGED tpc
       ELSE /\ tpc' = [tpc EXCEPT ![3] = "loop2"]
            /\ ti' = [ti EXCEPT ![3] = 0]
            /\ UNCHANGED mkData
    /\ UNCHANGED <<baseVars, idxVars, impVars, wg, defsArr, refsArr>>

\* Lines 357-359: data.Refs[i] = &refs[i], or the loop ends.
AssembleRefs ==
    /\ tpc[3] = "loop2"
    /\ IF ti[3] < Len(refsArr)
       THEN /\ mkData' = [mkData EXCEPT !.Refs[ti[3] + 1] = ti[3] + 1]
            /\ ti' = [ti EXCEPT ![3] = @ + 1]
            /\ UNCHANGED <<wg, tpc>>
       ELSE Done(3) /\ UNCHANGED <<mkData, ti>>
    /\ UNCHANGED <<baseVars, idxVars, impVars, defsArr, refsArr>>

\* What the caller reads through the returned *graph.Output.
Deref(arr, ptr) == IF ptr = 0 THEN "nil" ELSE arr[ptr]
Output ==
    [Defs |-> [k \in 1..Len(mkData.Defs) |-> Deref(defsArr, mkData.Defs[k])],
     Refs |-> [k \in 1..Len(mkData.Refs) |-> Deref(refsArr, mkData.Refs[k])]]

Wait_NoWait ==
    /\ pc = "wait"
    /\ ret' = Output
    /\ pc' = "returned"
    /\ UNCHANGED <<cmd, storeCmd, caps, opts, s, result, fatal, calls>>
    /\ UNCHANGED <<idxVars, impVars, mkVars>>

\* Lines 362-363: wg.Wait() returns once the counter is zero; return &data.
Wait ==
    /\ pc = "wait" /\ wg = 0
    /\ ret' = Output
    /\ pc' = "returned"
    /\ UNCHANGED <<cmd, storeCmd, caps, opts, s, result, fatal, calls>>
    /\ UNCHANGED <<idxVars, impVars, mkVars>>

\* A run-time panic ends the process.
Panic(msg) ==
    /\ fatal' = msg
    /\ pc' = "exited"

\* Lines 366-406: make and encode the data, then the type switch.
StoreImportCmd_sample ==
    /\ pc = "sample"
    /\ logs' = Append(logs, LogLine("Making sample data", 0))
    /\ \E encodes \in BOOLEAN :
        IF ~encodes
        THEN Return(Err("encode", "", "")) /\ UNCHANGED <<calls, data>>
        ELSE /\ data' = SampleData(opts.SampleDefs)
             /\ Dispatch(SampleRepo, SampleCommitID, SampleUnit,
                         SampleData(opts.SampleDefs), 0)
    /\ UNCHANGED <<cmd, storeCmd, caps, opts, s, fatal, ret, idxVars, mkVars>>
    /\ UNCHANGED <<rules, files, i, loaded>>

\* Lines 395-411: the importer returns.  Line 407 divides by the number of
\* defs and refs.
SampleImporterReturns ==
    /\ pc = "importing" /\ opts.Sample
    /\ \E e \in {Nil, Err("import", SampleUnit.Name, "")} :
        /\ calls' = [calls EXCEPT ![Len(calls)].err = e]
        /\ IF e # Nil
           THEN Return(e) /\ UNCHANGED fatal
           ELSE IF opts.SampleDefs + opts.SampleRefs = 0
           THEN Panic("integer divide by zero") /\ UNCHANGED result
           ELSE IF opts.SampleImportOnly
           THEN Return(Nil) /\ UNCHANGED fatal
           ELSE pc' = "sampleCmds" /\ UNCHANGED <<result, fatal>>
    /\ UNCHANGED <<cmd, storeCmd, caps, opts, s, ret, idxVars, mkVars, impVars>>

\* Lines 435-454: six `src store` commands run in turn; `failing` is the
\* first that fails (7: none).  The third and fifth index
\* data.Defs[len/2+1] and data.Defs[len/3+1], the fourth and sixth
\* data.Refs[len/2+1].
SampleRunCmds ==
    /\ pc = "sampleCmds"
    /\ \E failing \in 1..7 :
        IF failing <= 2
        THEN Return(Err("command failed", "", "")) /\ UNCHANGED fatal
        ELSE IF (opts.SampleDefs \div 2) + 1 >= opts.SampleDefs
        THEN Panic("index out of range") /\ UNCHANGED result
        ELSE IF failing = 3
        THEN Return(Err("command failed", "", "")) /\ UNCHANGED fatal
        ELSE IF (opts.SampleRefs \div 2) + 1 >= opts.SampleRefs
        THEN Panic("index out of range") /\ UNCHANGED result
        ELSE IF failing <= 6
        THEN Return(Err("command failed", "", "")) /\ UNCHANGED fatal
        ELSE Return(Nil) /\ UNCHANGED fatal
    /\ UNCHANGED <<cmd, storeCmd, caps, opts, s, calls, ret, idxVars, mkVars, impVars>>

(***************************************************************************)
(* Bare applications of store(), the filters() methods and IndexCriteria.  *)
(***************************************************************************)
ApplyStore ==
    /\ pc = "apply" /\ cmd = "store"
    /\ s' = StoreCmd_store(storeCmd).s
    /\ Return(StoreCmd_store(storeCmd).err)
    /\ UNCHANGED <<cmd, storeCmd, caps, opts, fatal, calls, ret, idxVars, mkVars, impVars>>

Apply(r) ==
    /\ ret' = r
    /\ fatal' = r.fatal
    /\ pc' = IF r.fatal # "" THEN "exited" ELSE "returned"
    /\ UNCHANGED <<cmd, storeCmd, caps, opts, s, result, calls, idxVars, mkVars, impVars>>

ApplyUnitsFilters == pc = "apply" /\ cmd = "units" /\ Apply(StoreUnitsCmd_filters(opts))
ApplyDefsFilters == pc = "apply" /\ cmd = "defs" /\ Apply(StoreDefsCmd_filters(opts))
ApplyRefsFilters == pc = "apply" /\ cmd = "refs" /\ Apply(StoreRefsCmd_filters(opts))
ApplyIndexCriteria ==
    pc = "apply" /\ cmd = "indexes" /\ Apply(storeIndexCriteria_IndexCriteria(opts))

(***************************************************************************)
(* Bounds and input domains                                                *)
(***************************************************************************)
MaxEvents == 3
MaxRules == 3
MaxDefs == 2
MaxDocs == 2
MaxSample == 3

SeqsUpTo(S, n) == UNION {[1..k -> S] : k \in 0..n}
Str(v) == {"", v}

Types == {"RepoStore", "MultiRepoStore", "BoltStore", ""}
Roots == {[parsed |-> TRUE, Host |-> <<>>],
          [parsed |-> TRUE, Host |-> <<"mybucket", "s3", "amazonaws", "com">>],
          [parsed |-> TRUE, Host |-> <<"example", "com">>],
          [parsed |-> FALSE, Host |-> <<>>]}
Configs == {"", "{bad", "null", "[1]", "{}", "{\"RepoPaths\":5}",
            "{\"RepoPaths\":\"Other\"}",
            "{\"RepoPaths\":\"EvenlyDistributedRepoPaths\"}"}
LocalRoot == [parsed |-> TRUE, Host |-> <<>>]
DefaultStoreCmd == [Type |-> "RepoStore", Root |-> LocalRoot, Config |-> ""]
Paths == {<<>>, <<"a">>, <<"a", ".", "b">>, <<"a", "..", "b">>}

ReposOpts == [IDContains : Str("x")]
VersionsOpts == [Repo : Str("r1"), CommitIDPrefix : Str("c")]
UnitsOpts == [Type : Str("t1"), Name : Str("u1"), CommitID : Str("c1"),
              Repo : Str("r1"), File : Paths]
DefsOpts == [Repo : Str("r1"), Path : Str("p"), UnitType : Str("t1"), Unit : Str("u1"),
             File : {<<>>, <<"a", ".", "b">>}, FilePathPrefix : {<<>>, <<"a">>},
             CommitID : Str("c1"), NamePrefix : Str("n"), Limit : {0, 1}]
RefsOpts == [Repo : Str("r1"), UnitType : Str("t1"), Unit : Str("u1"),
             File : {<<>>, <<"a", ".", "b">>}, CommitID : Str("c1"),
             Start : {0, 1}, End : {0, 1},
             DefRepo : Str("dr"), DefUnitType : Str("dt"), DefUnit : Str("du"),
             DefPath : Str("dp")]
IndexOpts == [Repo : Str("r1"), CommitID : Str("c1"), UnitType : Str("t1"),
              Unit : Str("u1"), Name : Str("n"), Type : Str("T"),
              Stale : BOOLEAN, NotStale : BOOLEAN, Output : {"text"}]
NoOpts == [none |-> TRUE]

ListCaps == {"RepoStore", "MultiRepoStore", "TreeStore", "UnitStore"}

InitBase ==
    /\ s = NoStore /\ result = Running /\ fatal = "" /\ calls = <<>> /\ ret = NoRet
InitIdx ==
    /\ sent = 0 /\ closed = 0 /\ cpc = "none" /\ x = NoEvent /\ last = NoLast
    /\ out = <<>> /\ hasError = FALSE /\ retval = Running
NoIdxInput == events = <<>> /\ fErr = Nil
InitImp == i = 1 /\ loaded = <<>> /\ data = NoData /\ logs = <<>>
NoImpInput == rules = <<>> /\ files = <<>>
InitMk == MakeGraphData(0, 0)

\* store() applied to every combination of type tag, root and payload.
InitStore ==
    /\ cmd = "store" /\ pc = "apply"
    /\ storeCmd \in [Type : Types, Root : Roots, Config : Configs]
    /\ caps = {} /\ opts = NoOpts
    /\ InitBase /\ InitIdx /\ NoIdxInput /\ InitImp /\ InitMk /\ NoImpInput
NextStore == ApplyStore
SpecStore == InitStore /\ [][NextStore]_vars

\* The filters() methods and IndexCriteria applied to every option record.
InitFilters ==
    /\ pc = "apply"
    /\ \/ cmd = "units" /\ opts \in UnitsOpts
       \/ cmd = "defs" /\ opts \in DefsOpts
       \/ cmd = "refs" /\ opts \in RefsOpts
       \/ cmd = "indexes" /\ opts \in IndexOpts
    /\ storeCmd = DefaultStoreCmd /\ caps = {}
    /\ InitBase /\ InitIdx /\ NoIdxInput /\ InitImp /\ InitMk /\ NoImpInput
NextFilters ==
    \/ ApplyUnitsFilters
    \/ ApplyDefsFilters
    \/ ApplyRefsFilters
    \/ ApplyIndexCriteria
SpecFilters == InitFilters /\ [][NextFilters]_vars

\* The listing commands, against backends of every capability set.
InitList ==
    /\ pc = "start"
    /\ \/ cmd = "repos" /\ opts \in ReposOpts
       \/ cmd = "versions" /\ opts \in VersionsOpts
       \/ cmd = "units"
          /\ opts \in [Type : Str("t1"), Name : Str("u1"), CommitID : {""},
                       Repo : {""}, File : {<<>>, <<"a", ".", "b">>}]
       \/ cmd = "defs"
          /\ opts \in [Repo : {""}, Path : {""}, UnitType : Str("t1"), Unit : Str("u1"),
                       File : {<<>>}, FilePathPrefix : {<<>>}, CommitID : {""},
                       NamePrefix : {""}, Limit : {0, 1}]
       \/ cmd = "refs"
          /\ opts \in [Repo : {""}, UnitType : Str("t1"), Unit : Str("u1"),
                       File : {<<>>}, CommitID : {""}, Start : {0}, End : {0},
                       DefRepo : Str("dr"), DefUnitType : {"dt"}, DefUnit : {"du"},
                       DefPath : Str("dp")]
    /\ storeCmd \in [Type : {"RepoStore", "MultiRepoStore", "BoltStore"},
                     Root : {LocalRoot}, Config : {"", "{bad"}]
    /\ caps \in SUBSET ListCaps
    /\ InitBase /\ InitIdx /\ NoIdxInput /\ InitImp /\ InitMk /\ NoImpInput
NextList ==
    \/ StoreReposCmd_Execute
    \/ StoreVersionsCmd_Execute
    \/ StoreUnitsCmd_Execute
    \/ StoreDefsCmd_Execute
    \/ StoreRefsCmd_Execute
    \/ ListingReturns
SpecList == InitList /\ [][NextList]_vars

\* Status events: clean, with a query error, with a build error, with both.
StatusEvents ==
    [Repo : {"r1"}, CommitID : {"c1"},
     Unit : {[ptr |-> 0, Type |-> "", Name |-> ""]},
     Error : Str("e"), BuildError : Str("b")]
PlainIndexOpts ==
    [Repo |-> "", CommitID |-> "", UnitType |-> "", Unit |-> "", Name |-> "",
     Type |-> "", Stale |-> FALSE, NotStale |-> FALSE, Output |-> "text"]

\* indexes and index: every option record with no events to stream (the
\* runs that end before f is called are among them), and the plain options
\* in both output modes with every event sequence and either return of f.
InitIndex ==
    /\ pc = "start"
    /\ cmd \in {"indexes", "index"}
    /\ \/ /\ opts \in [Repo : {""}, CommitID : {""}, UnitType : Str("t1"),
                       Unit : Str("u1"), Name : {""}, Type : {""},
                       Stale : BOOLEAN, NotStale : BOOLEAN,
                       Output : {"text", "json", "xml"}]
          /\ storeCmd \in [Type : {"RepoStore", "BoltStore"}, Root : {LocalRoot},
                           Config : {""}]
          /\ caps = {}
          /\ NoIdxInput
       \/ /\ opts \in {[PlainIndexOpts EXCEPT !.Output = o] : o \in {"text", "json"}}
          /\ \/ storeCmd = DefaultStoreCmd /\ caps = {"RepoStore"}
             \/ /\ storeCmd = [DefaultStoreCmd EXCEPT !.Type = "MultiRepoStore"]
                /\ caps = {"RepoStore", "MultiRepoStore"}
          /\ events \in SeqsUpTo(StatusEvents, MaxEvents)
          /\ fErr \in {Nil, Err("backend", "index", "")}
    /\ InitBase /\ InitIdx /\ InitImp /\ InitMk /\ NoImpInput
NextIndex ==
    \/ StoreIndexesCmd_Execute
    \/ StoreIndexCmd_Execute
    \/ SendStatus
    \/ RenderJSON
    \/ RenderText
    \/ FReturns
    \/ Deferred
    \/ RangeEnds
    \/ Drained
SpecIndex == InitIndex /\ [][NextIndex]_vars

\* The Go scheduler runs every goroutine that can take a step: the consumer's
\* loop body and loop end, and the main flow's deferred close and handshake.
\* Nothing is assumed about f: it may never return.
FairIndex ==
    /\ WF_vars(RenderJSON)
    /\ WF_vars(RenderText)
    /\ WF_vars(RangeEnds)
    /\ WF_vars(Deferred)
    /\ WF_vars(Drained)
SpecIndexLive == InitIndex /\ [][NextIndex]_vars /\ FairIndex

\* Units as the events point to them: ptr 0 is nil, ptr 1 and ptr 2 are two
\* unit.ID2 values with the same type and name, ptr 3 is another unit.
UnitPtrs ==
    {[ptr |-> 0, Type |-> "", Name |-> ""],
     [ptr |-> 1, Type |-> "t1", Name |-> "u1"],
     [ptr |-> 2, Type |-> "t1", Name |-> "u1"],
     [ptr |-> 3, Type |-> "t1", Name |-> "u2"]}
\* Status events of two repositories, two commits and the units above, with
\* no errors.
GroupEvents ==
    [Repo : {"r1", "r2"}, CommitID : {"c1", "c2"}, Unit : UnitPtrs,
     Error : {""}, BuildError : {""}]

\* indexes in text mode against a single-repository and a multi-repository
\* backend, with every sequence of group events; f returns nil.
InitText ==
    /\ pc = "start"
    /\ cmd = "indexes"
    /\ opts = PlainIndexOpts
    /\ \/ storeCmd = DefaultStoreCmd /\ caps = {"RepoStore"}
       \/ /\ storeCmd = [DefaultStoreCmd EXCEPT !.Type = "MultiRepoStore"]
          /\ caps = {"RepoStore", "MultiRepoStore"}
    /\ events \in SeqsUpTo(GroupEvents, MaxEvents)
    /\ fErr = Nil
    /\ InitBase /\ InitIdx /\ InitImp /\ InitMk /\ NoImpInput
NextText ==
    \/ StoreIndexesCmd_Execute
    \/ SendStatus
    \/ RenderText
    \/ FReturns
    \/ Deferred
    \/ RangeEnds
    \/ Drained
SpecText == InitText /\ [][NextText]_vars

\* Rules: graph rules for three source units, a rule of another kind that
\* has a source unit, and one that has none.
UnitID(t, u) == [Type |-> t, Name |-> u]
GraphRule(t, u) ==
    [kind |-> "graph", hasSU |-> TRUE, Unit |-> UnitID(t, u),
     target |-> t \o "/" \o u \o ".graph.json"]
RuleSet ==
    {GraphRule("t1", "u1"), GraphRule("t2", "u2"), GraphRule("t1", "u2"),
     [kind |-> "other", hasSU |-> TRUE, Unit |-> UnitID("t1", "u1"),
      target |-> "t1/u1.depresolve.json"],
     [kind |-> "other", hasSU |-> FALSE, Unit |-> UnitID("", ""),
      target |-> "config"]}

Def(path, docs) == [Path |-> path, Docs |-> docs]
Doc(path, format, d) == [Path |-> path, Format |-> format, Data |-> d]
File(defs, docs) == [ok |-> TRUE, Defs |-> defs, Docs |-> docs]
OneFile == File(<<Def("a/b", <<>>)>>, <<Doc("a/b", "text/plain", "d1")>>)
DefSet ==
    {Def("a/b", <<>>), Def("c", <<>>),
     Def("a/b", <<[Format |-> "text/html", Data |-> "d0"]>>)}
DocSet ==
    {Doc("a/b", "text/plain", "d1"), Doc("a/b", "text/html", "d2"),
     Doc("c", "text/plain", "d1")}

\* A graph rule's target file is unreadable or holds graph output; the
\* other rules' targets are never read.
FilesFor(rs, contents) ==
    {f \in [1..Len(rs) -> contents \cup {NoFile}] :
        \A k \in 1..Len(rs) : rs[k].kind # "graph" => f[k] = NoFile}

ImportOpts ==
    [DryRun |-> FALSE, Sample |-> FALSE, SampleDefs |-> 0, SampleRefs |-> 0,
     SampleImportOnly |-> FALSE, Repo |-> "r1", Unit |-> "", UnitType |-> "",
     CommitID |-> "c1", RemoteBuildDataRepo |-> "", RemoteBuildData |-> FALSE,
     Verbose |-> FALSE]
Importers == {{}, {"RepoImporter"}, {"MultiRepoImporter"}}

\* import: a store that cannot be selected; sample mode; rule lists with
\* every unit filter against every importer; and one graph rule with every
\* graph output.  One dynamic type has one Import method, so no backend
\* satisfies both importer interfaces.
InitImport ==
    /\ pc = "start" /\ cmd = "import"
    /\ \/ /\ storeCmd = [DefaultStoreCmd EXCEPT !.Type = "BoltStore"]
          /\ caps = {} /\ opts = ImportOpts /\ NoImpInput
       \/ /\ storeCmd = DefaultStoreCmd
          /\ caps \in Importers
          /\ \E n \in 0..MaxSample, m \in 0..MaxSample, only \in BOOLEAN, dry \in BOOLEAN :
                opts = [ImportOpts EXCEPT !.Sample = TRUE, !.SampleDefs = n,
                                          !.SampleRefs = m, !.SampleImportOnly = only,
                                          !.DryRun = dry]
          /\ NoImpInput
       \/ /\ storeCmd = DefaultStoreCmd
          /\ caps \in Importers
          /\ \E dry \in BOOLEAN, u \in Str("u1"), t \in Str("t1") :
                opts = [ImportOpts EXCEPT !.DryRun = dry, !.Unit = u, !.UnitType = t]
          /\ rules \in SeqsUpTo(RuleSet, MaxRules)
          /\ files \in FilesFor(rules, {OneFile})
       \/ /\ storeCmd = [DefaultStoreCmd EXCEPT !.Type = "MultiRepoStore"]
          /\ caps \in {{"RepoImporter"}, {"MultiRepoImporter"}}
          /\ \E dry \in BOOLEAN, v \in BOOLEAN :
                opts = [ImportOpts EXCEPT !.DryRun = dry, !.Verbose = v]
          /\ rules = <<GraphRule("t1", "u1")>>
          /\ files \in [{1} -> {File(defs, docs) :
                                  defs \in SeqsUpTo(DefSet, MaxDefs),
                                  docs \in SeqsUpTo(DocSet, MaxDocs)}]
    /\ InitBase /\ InitIdx /\ NoIdxInput /\ InitImp /\ InitMk
NextImport ==
    \/ StoreImportCmd_Execute
    \/ ImportRule
    \/ ImporterReturns
    \/ ImportCompleted
    \/ StoreImportCmd_sample
    \/ SampleImporterReturns
    \/ SampleRunCmds
SpecImport == InitImport /\ [][NextImport]_vars

\* makeGraphData applied to every pair of sizes.
InitMake ==
    /\ cmd = "makeGraphData" /\ pc = "go1"
    /\ opts \in [SampleDefs : 0..MaxSample, SampleRefs : 0..MaxSample]
    /\ MakeGraphData(opts.SampleDefs, opts.SampleRefs)
    /\ storeCmd = DefaultStoreCmd /\ caps = {}
    /\ InitBase /\ InitIdx /\ NoIdxInput /\ InitImp /\ NoImpInput
NextMake ==
    \/ GoDefs
    \/ GoRefs
    \/ GoAssemble
    \/ GenDefs
    \/ GenRefs
    \/ AssembleDefs
    \/ AssembleRefs
    \/ Wait
SpecMake == InitMake /\ [][NextMake]_vars

(***************************************************************************)
(* Properties                                                              *)
(***************************************************************************)
Recognized == {"RepoStore", "MultiRepoStore"}
ShapeOf(type) == IF type = "RepoStore" THEN "FSRepoStore" ELSE "FSMultiRepoStore"
ConfigErrors == {"unrecognized store --type", "--config"}
\* A payload is malformed when decoding it into conf2 fails.
Malformed(text) == text # "" /\ Unmarshal_conf2(text).err

\* C9 as stated: store() fails with a configuration error and no backend
\* whenever the type tag is unrecognized or the --config payload is
\* non-empty and malformed, for every type tag; otherwise it returns a
\* backend of the shape the type tag names.
C9_AnyMalformedConfigFails ==
    (cmd = "store" /\ pc = "returned") =>
        IF storeCmd.Type \notin Recognized \/ Malformed(storeCmd.Config)
        THEN result.kind \in ConfigErrors /\ s = NoStore
        ELSE result = Nil /\ s.impl = ShapeOf(storeCmd.Type)

\* C9, amended: store() fails with a configuration error and no backend
\* exactly when the type tag is unrecognized, or the type tag is
\* MultiRepoStore and the payload is non-empty and malformed; a RepoStore
\* never decodes the payload.  Otherwise the backend has the shape the
\* type tag names.
C9_Selection ==
    (cmd = "store" /\ pc = "returned") =>
        IF storeCmd.Type \notin Recognized
        THEN result = Err("unrecognized store --type", storeCmd.Type, "")
             /\ s = NoStore
        ELSE IF storeCmd.Type = "MultiRepoStore" /\ Malformed(storeCmd.Config)
        THEN result = Err("--config", storeCmd.Config, "") /\ s = NoStore
        ELSE result = Nil /\ s.impl = ShapeOf(storeCmd.Type)

C9_Witness ==
    /\ cmd = "store" /\ pc = "returned"
    /\ storeCmd.Type = "MultiRepoStore" /\ storeCmd.Config = "[1]"
    /\ result.kind = "--config" /\ s = NoStore

ExactlyOne(a, b) == (a = "") # (b = "")
SomeNotAll(S) == (\E v \in S : v # "") /\ (\E v \in S : v = "")
DefTuple(c) == {c.DefRepo, c.DefUnitType, c.DefUnit, c.DefPath}

\* The options name a compound filter only in part.
PartialFilter ==
    CASE cmd = "units" -> ExactlyOne(opts.Type, opts.Name)
      [] cmd = "defs" -> ExactlyOne(opts.UnitType, opts.Unit)
      [] cmd = "refs" -> ExactlyOne(opts.UnitType, opts.Unit) \/ SomeNotAll(DefTuple(opts))
      [] cmd = "indexes" -> ExactlyOne(opts.UnitType, opts.Unit)
      [] OTHER -> FALSE

\* C3 as stated: a partially specified compound filter ends in a fatal
\* usage error and yields no filter list; when both/all or none are
\* supplied no usage error is raised.
C3_NoUsageErrorOtherwise ==
    pc # "apply" =>
        IF PartialFilter
        THEN pc = "exited" /\ fatal # "" /\ ~ret.set
        ELSE pc = "returned" /\ fatal = "" /\ ret.set

\* C3, amended: a partially specified compound filter ends in a fatal usage
\* error and yields no filter list; when both/all or none are supplied, no
\* usage error is raised, except that IndexCriteria still ends in its own
\* fatal usage error when --stale and --not-stale are both set.
C3_PartialFilterIsFatal ==
    pc # "apply" =>
        IF PartialFilter
        THEN pc = "exited" /\ fatal # "" /\ ~ret.set
        ELSE IF cmd = "indexes" /\ opts.Stale /\ opts.NotStale
        THEN pc = "exited" /\ fatal = MsgStale /\ ~ret.set
        ELSE pc = "returned" /\ fatal = "" /\ ret.set

C3_Witness ==
    /\ cmd = "refs" /\ pc = "exited" /\ fatal = MsgDef
    /\ opts.DefRepo = "" /\ opts.DefUnitType # "" /\ opts.DefUnit # ""
    /\ opts.DefPath # ""
    /\ opts.UnitType # "" /\ opts.Unit # ""

\* The interface each listing command asserts, and the operation its error names.
Needs ==
    [repos |-> "MultiRepoStore", versions |-> "RepoStore", units |-> "TreeStore",
     defs |-> "UnitStore", refs |-> "UnitStore"]
Listing ==
    [repos |-> "listing repositories", versions |-> "listing versions",
     units |-> "listing source units", defs |-> "listing defs",
     refs |-> "listing refs"]

\* C6: when the constructed backend lacks the interface the command needs,
\* Execute returns the 'does not implement listing ...' error naming the
\* operation and the backend's concrete type, and no backend call is made.
C6_CapabilityMismatch ==
    (pc # "start" /\ StoreCmd_store(storeCmd).err = Nil /\ Needs[cmd] \notin caps) =>
        /\ pc = "returned"
        /\ result = Err("does not implement", Listing[cmd], ShapeOf(storeCmd.Type))
        /\ calls = <<>>

C6_Witness ==
    /\ cmd = "repos" /\ pc = "returned"
    /\ storeCmd.Type = "RepoStore"
    /\ caps = {"RepoStore", "TreeStore", "UnitStore"}
    /\ result = Err("does not implement", "listing repositories", "FSRepoStore")
    /\ calls = <<>>

\* The events rendered so far: one detail line or JSON record each.
IsRecord(l) == l.k \in {"detail", "json"}
Rendered == [n \in 1..Len(SelectSeq(out, IsRecord)) |-> SelectSeq(out, IsRecord)[n].x]

\* C1: when doStoreIndexesCmd returns after calling f, every event f sent
\* has been rendered, in order, in text and json mode, whether f returned
\* nil or an error.
C1_DrainedBeforeReturn ==
    (pc = "returned" /\ calls # <<>>) =>
        /\ sent = Len(events)
        /\ Rendered = events
        /\ cpc = "exit"

C1_Witness ==
    /\ pc = "returned" /\ opts.Output = "json"
    /\ Len(events) = MaxEvents /\ fErr # Nil
    /\ Rendered = events /\ result = fErr

HasErrorEvent == \E n \in 1..Len(events) : events[n].Error # "" \/ events[n].BuildError # ""

\* C2: if any event f sent has a non-empty Error or BuildError,
\* doStoreIndexesCmd returns a non-nil error, in both output modes and for
\* every position of the event and every interleaving.
C2_EventErrorFailsCommand ==
    (pc = "returned" /\ calls # <<>> /\ HasErrorEvent) => result # Nil

FilterSet == opts.Unit # "" \/ opts.UnitType # ""

\* A graph-unit rule whose source unit has the name and the type asked for.
Matches(rule) ==
    /\ rule.kind = "graph" /\ rule.hasSU
    /\ opts.Unit # "" => rule.Unit.Name = opts.Unit
    /\ opts.UnitType # "" => rule.Unit.Type = opts.UnitType

\* A graph-unit rule the unit filter, if any, lets through.
Survives(rule) == rule.kind = "graph" /\ (FilterSet => Matches(rule))

\* The loop has dealt with rules 1..Visited.
Visited == IF loaded # <<>> /\ loaded[Len(loaded)] = i THEN i ELSE i - 1
Indices(n, Keep(_)) == SelectSeq([k \in 1..n |-> k], Keep)
MatchesAt(k) == Matches(rules[k])
ImportedRules == [k \in 1..Len(calls) |-> calls[k].rule]
IsPrefix(a, b) == Len(a) <= Len(b) /\ a = SubSeq(b, 1, Len(a))

\* C4: with --unit or --unit-type set, the rules taken to the import step
\* are exactly the graph-unit rules whose source unit matches, in rule-list
\* order; a rule without a source unit is never among them.  Every importer
\* call is for such a rule, and an invocation that completes has called the
\* importer for each of them, in order.
C4_RuleFiltering ==
    (cmd = "import" /\ ~opts.Sample /\ FilterSet) =>
        /\ loaded = Indices(Visited, MatchesAt)
        /\ IsPrefix(ImportedRules, loaded)
        /\ \A k \in 1..Len(calls) : rules[calls[k].rule].hasSU
        /\ (pc = "returned" /\ result = Nil /\ ~opts.DryRun) =>
                ImportedRules = Indices(Len(rules), MatchesAt)

C4_Witness ==
    /\ pc = "returned" /\ result = Nil /\ ~opts.DryRun
    /\ opts.Unit = "u1" /\ opts.UnitType = "t1"
    /\ rules = <<GraphRule("t1", "u1"), GraphRule("t2", "u2")>>
    /\ ImportedRules = <<1>>

Max(S) == CHOOSE m \in S : \A n \in S : n <= m
DocsWithPath(f, path) == {k \in 1..Len(f.Docs) : f.Docs[k].Path = path}

\* C5: in the data handed to the importer, each definition has gained
\* exactly one documentation entry if some doc record has its path, with
\* the format and content of the last such record in list order, and has
\* gained none otherwise; the doc records themselves are handed on as read.
C5_DocMerge ==
    (cmd = "import" /\ ~opts.Sample) =>
        \A k \in 1..Len(calls) :
            LET f == files[calls[k].rule]
                d == calls[k].data IN
            /\ d.Docs = f.Docs
            /\ Len(d.Defs) = Len(f.Defs)
            /\ \A j \in 1..Len(f.Defs) :
                LET ks == DocsWithPath(f, f.Defs[j].Path) IN
                /\ d.Defs[j].Path = f.Defs[j].Path
                /\ d.Defs[j].Docs =
                        IF ks = {} THEN f.Defs[j].Docs
                        ELSE Append(f.Defs[j].Docs,
                                    [Format |-> f.Docs[Max(ks)].Format,
                                     Data |-> f.Docs[Max(ks)].Data])

C5_Witness ==
    /\ cmd = "import" /\ ~opts.Sample /\ Len(rules) = 1 /\ Len(calls) = 1
    /\ files[1].Defs = <<Def("a/b", <<>>), Def("c", <<>>)>>
    /\ files[1].Docs = <<Doc("a/b", "text/plain", "d1"), Doc("a/b", "text/html", "d2")>>
    /\ calls[1].data.Defs =
            <<Def("a/b", <<[Format |-> "text/html", Data |-> "d2"]>>), Def("c", <<>>)>>

\* C7: an error from loading or importing a rule is the error Execute
\* returns; no later rule is loaded or imported; and the importer calls
\* made for the rules before it stand, each having returned nil.
C7_AbortOnFirstFailure ==
    (cmd = "import" /\ ~opts.Sample) =>
        /\ \A k \in 1..Len(calls) :
            IF k < Len(calls) THEN calls[k].err = Nil
            ELSE calls[k].err \notin {Nil, Running} =>
                    /\ pc = "returned" /\ result = calls[k].err
                    /\ loaded[Len(loaded)] = calls[k].rule
        /\ \A n \in 1..Len(loaded) :
            ~files[loaded[n]].ok =>
                /\ n = Len(loaded)
                /\ pc = "returned" /\ result = Err("read", rules[loaded[n]].target, "")
                /\ \A k \in 1..Len(calls) :
                        calls[k].rule < loaded[n] /\ calls[k].err = Nil

C7_Witness ==
    /\ cmd = "import" /\ pc = "returned"
    /\ Len(rules) = 3 /\ \A k \in 1..3 : Survives(rules[k])
    /\ Len(calls) = 2 /\ calls[1].err = Nil
    /\ calls[2].err = Err("import", rules[2].Unit.Name, "")
    /\ result = calls[2].err
    /\ loaded = <<1, 2>>

NoImporter == caps \cap {"RepoImporter", "MultiRepoImporter"} = {}
SetupFailed ==
    result.kind \in {"unrecognized store --type", "--config", "openLocalRepo",
                     "getBuildDataFS", "config.ReadCached", "plan.CreateMakefile"}
NotImplemented == Err("does not implement", "importing", ShapeOf(storeCmd.Type))
Survivors == {k \in 1..Len(rules) : Survives(rules[k])}
Min(S) == CHOOSE m \in S : \A n \in S : m <= n

\* The arguments each importer is given.
CallArgs(call) ==
    IF "RepoImporter" \in caps
    THEN /\ call.op = "RepoImporter.Import" /\ call.repo = ""
         /\ call.commit = IF opts.Sample THEN SampleCommitID ELSE opts.CommitID
    ELSE /\ "MultiRepoImporter" \in caps
         /\ call.op = "MultiRepoImporter.Import"
         /\ call.repo = IF opts.Sample THEN SampleRepo ELSE opts.Repo
         /\ call.commit = IF opts.Sample THEN SampleCommitID ELSE opts.CommitID

\* C8 as stated, in its weakest reading: an import invocation that is not a
\* dry run, against a backend with neither importer, never reports success.
C8_NoImporterNeverSucceeds ==
    (cmd = "import" /\ pc = "returned" /\ ~opts.DryRun /\ NoImporter) => result # Nil

\* C8, amended: the repository-scoped importer receives (commit, unit,
\* data) and the multi-repository importer (repository, commit, unit, data);
\* against a backend with neither, no importer is called, and a run that is
\* not a dry run and reaches the rule loop ends with 'store does not
\* implement importing' at the first graph-unit rule that survives the
\* filter, once its file has loaded (with the load error if it has not),
\* and with success when no graph-unit rule survives; sample mode ends with
\* that error or the encoding error.
C8_ImporterDispatch ==
    cmd = "import" =>
        /\ \A k \in 1..Len(calls) :
            /\ CallArgs(calls[k])
            /\ (k = Len(calls) /\ pc = "importing") => calls[k].data = data
            /\ calls[k].unit = IF opts.Sample THEN SampleUnit
                               ELSE rules[calls[k].rule].Unit
        /\ NoImporter => calls = <<>>
        /\ (NoImporter /\ pc = "returned" /\ ~SetupFailed /\ opts.Sample) =>
                result \in {NotImplemented, Err("encode", "", "")}
        /\ (NoImporter /\ pc = "returned" /\ ~SetupFailed /\ ~opts.Sample
              /\ ~opts.DryRun) =>
                IF Survivors = {} THEN result = Nil
                ELSE IF files[Min(Survivors)].ok THEN result = NotImplemented
                ELSE result = Err("read", rules[Min(Survivors)].target, "")

C8_Witness ==
    /\ cmd = "import" /\ pc = "returned" /\ NoImporter
    /\ ~opts.DryRun /\ ~opts.Sample
    /\ Len(rules) = 2 /\ rules[1].kind = "other" /\ Survives(rules[2]) /\ files[2].ok
    /\ result = NotImplemented /\ calls = <<>> /\ loaded = <<2>>

\* C10: with --dry-run set, StoreImportCmd.Execute calls no importer, so
\* the store is unchanged at the end of the invocation.
C10_DryRunCallsNoImporter ==
    (cmd = "import" /\ opts.DryRun) => calls = <<>>

(***************************************************************************)
(* Text-mode grouping                                                      *)
(***************************************************************************)
GroupOf(e) == <<e.Repo, e.CommitID>>
UnitOf(e) == <<e.Unit.Type, e.Unit.Name>>

\* The lines a grouping by value gives event n: a repository header when the
\* repository differs from the previous event's (multi-repository backend),
\* a commit line when the (repository, commit) group differs, a unit header
\* when the unit's type and name differ, then the event's own line.  The
\* first event has no previous one; an event with no unit has no unit header.
HeadersFor(n) ==
    LET e == events[n]
        first == n = 1
    IN  (IF Implements("MultiRepoStore") /\ (first \/ e.Repo # events[n - 1].Repo)
         THEN <<Line("repo", e)>> ELSE <<>>)
        \o (IF first \/ GroupOf(e) # GroupOf(events[n - 1])
            THEN <<Line("commit", e)>> ELSE <<>>)
        \o (IF e.Unit.ptr # 0 /\ (first \/ UnitOf(e) # UnitOf(events[n - 1]))
            THEN <<Line("unit", e)>> ELSE <<>>)
        \o <<Line("detail", e)>>

RECURSIVE GroupedOut(_)
GroupedOut(n) == IF n = 0 THEN <<>> ELSE GroupedOut(n - 1) \o HeadersFor(n)
NotBlank(l) == l.k # "blank"

\* C11: in text mode, for every sequence of status events, the headers
\* printed (blank separator lines aside) are those of the grouping by value:
\* repository header exactly when the repository differs from the previous
\* event's, commit line exactly when the (repository, commit) group differs,
\* unit header exactly when the unit (type+name) differs.
C11_TextGrouping ==
    (opts.Output = "text" /\ pc = "returned" /\ calls # <<>>) =>
        SelectSeq(out, NotBlank) = GroupedOut(Len(events))

(***************************************************************************)
(* makeGraphData                                                           *)
(***************************************************************************)
AllDone == \A t \in Tasks : tpc[t] = "done"
\* The assembling goroutine has stored an address.
Assembled == \E k \in 1..Len(mkData.Defs) : mkData.Defs[k] # 0
Generated ==
    [Defs |-> [k \in 1..opts.SampleDefs |-> GenDef(k - 1)],
     Refs |-> [k \in 1..opts.SampleRefs |-> GenRef(k - 1)]]

\* C12 as stated: the assembling task performs its steps only after both
\* generating tasks have finished, in every interleaving.
C12_AssemblesAfterGenerators ==
    (cmd = "makeGraphData" /\ Assembled) => (tpc[1] = "done" /\ tpc[2] = "done")

\* C12, amended: the three tasks run with no ordering among them (the
\* assembling task stores the address of each array element, whether or not
\* the element has been generated yet); makeGraphData returns only after all
\* three tasks have completed, and every entry of the output it returns then
\* refers to a generated definition or reference.
C12_ReturnsAfterAllTasks ==
    (cmd = "makeGraphData" /\ pc = "returned") =>
        /\ AllDone
        /\ wg = 0
        /\ ret = Generated
        /\ ret.Defs = SampleData(opts.SampleDefs).Defs

C12_Witness ==
    /\ cmd = "makeGraphData" /\ pc = "returned"
    /\ opts.SampleDefs = 2 /\ opts.SampleRefs = 1
    /\ AllDone
    /\ ret = [Defs |-> <<GenDef(0), GenDef(1)>>, Refs |-> <<GenRef(0)>>]

(***************************************************************************)
(* The index pipeline's termination                                        *)
(***************************************************************************)
\* f has returned to doStoreIndexesCmd.
FReturned == pc \in {"deferred", "draining"} \/ (pc = "returned" /\ calls # <<>>)
Terminated == pc = "returned" /\ cpc \in {"none", "exit"}

\* indexChan is closed at most once, only after f has returned, and exactly
\* once by the time doStoreIndexesCmd returns from a call of f; once it has
\* returned no consumer is left running or blocked.
PipelineSafe ==
    /\ closed <= 1
    /\ closed = 1 => FReturned /\ pc # "deferred"
    /\ (pc = "returned" /\ calls # <<>>) => closed = 1
    /\ pc = "returned" => Terminated
    /\ (pc = "returned" /\ calls = <<>>) => (cpc = "none" /\ closed = 0)

\* C13: whenever the backend call f returns, doStoreIndexesCmd eventually
\* returns with the consumer goroutine terminated, whatever f returned and
\* whatever the events carried; a run that ends before f is called (an
\* unrecognized output format) returns with no consumer started; the
\* channel is closed exactly once, only after f has returned, and nothing
\* is sent on it after the close.
C13_PipelineTerminates ==
    /\ (pc = "deferred") ~> Terminated
    /\ []PipelineSafe
    /\ [][sent' # sent => (closed = 0 /\ closed' = 0)]_vars
    /\ [][closed' # closed => (pc = "deferred" /\ closed = 0)]_vars

C13_Witness ==
    /\ Terminated /\ cpc = "exit" /\ closed = 1
    /\ opts.Output = "text" /\ Len(events) >= 2 /\ sent = Len(events)
    /\ HasErrorEvent /\ fErr # Nil /\ result = fErr
====
